---------------------------- MODULE Spec2Model ----------------------------
(***************************************************************************)
(* A model of the Polymarket BTC 15-minute bot:                            *)
(*   - TradingStrategy   (trading_strategy.py), the decision engine;       *)
(*   - PositionTracker   (position_tracker.py), the position ledger;       *)
(*   - PolymarketTradingBot (main.py), the orchestrator that drives both.  *)
(*                                                                         *)
(* Units.  Prices are integers in cents (0.40 USDC is 40).  Share counts   *)
(* and P&L are exact rationals [num, den] in lowest terms (P&L in cents):  *)
(* the Python floats are modelled by the real numbers they stand for, so   *)
(* rounding in the last binary digit is not part of the model (in floats   *)
(* (0.42 - 0.40) / 0.40 * 100 is 4.99999999999999, a hair under the 5 it   *)
(* is here).                                                               *)
(* Percentage tests such as (a - b) / b * 100 >= t are evaluated by cross  *)
(* multiplication, (a - b) * 100 >= t * b, which is the same test for      *)
(* b > 0.                                                                  *)
(*                                                                         *)
(* Python's None is "None" where the other values are strings, NoValue     *)
(* where they are numbers, and the empty sequence where they are records   *)
(* (an Optional[Position] is a sequence of length 0 or 1).                 *)
(***************************************************************************)
EXTENDS Integers, Sequences, FiniteSets, TLC

VARIABLES
    strategy,           \* the TradingStrategy object
    tracker,            \* the PositionTracker object (memory)
    history_file,       \* the content of position_history.json
    clock,              \* what datetime.now() returns
    ret,                \* the last call made on either object, and its result
                        \* (for close_position also unsaved: how many closed
                        \* positions memory held beyond the file at the call)
    rule_a_fired,       \* history: rule (a) signals per outcome since the last reset
    position_value_usdc,\* the bot's configured position value, in cents
    pc,                 \* where the orchestrator is within its trading cycle
    pending,            \* the outcome the orchestrator is trading now
    trades,             \* history: the execute_trade calls of this cycle and their results
    ledger_calls,       \* history: the ledger mutations of this cycle, in order
    engine_calls,       \* history: the calls on the strategy of this cycle, in order
    tracking_price      \* history: the price the last handler of this cycle
                        \* fetched for its outcome after its trade (NoValue: none)

vars == <<strategy, tracker, history_file, clock, ret, rule_a_fired,
          position_value_usdc, pc, pending, trades, ledger_calls, engine_calls,
          tracking_price>>

-----------------------------------------------------------------------------
(* Values *)

Outcomes == {"UP", "DOWN"}

\* A faulty order: DOWN is looked at first.
OutcomeOrder_DownFirst == <<"DOWN", "UP">>

\* The order of `for outcome in ['UP', 'DOWN']`.
OutcomeOrder == <<"UP", "DOWN">>

None == "None"

NoValue == -1

\* Strategy parameters (defaults of TradingStrategy.__init__).
entry_threshold_percent == 5

entry_price_threshold == 60

exit_reversal_percent == 5

\* The prices, in cents, a snapshot may carry in the strategy specification:
\* 0 (the fallback price of a token without asks), a low and its 5% rise (40,
\* 42), and the absolute threshold (60).
PriceSet == {0, 40, 42, 60}

\* The prices of the exit specification: a high (80) and the prices 6.25%, 5%
\* and 3.75% below it.
ExitPriceSet == {75, 76, 77, 80}

-----------------------------------------------------------------------------
(* Exact rationals *)

Abs(n) == IF n < 0 THEN -n ELSE n

RECURSIVE GCD(_, _)
GCD(a, b) == IF b = 0 THEN a ELSE GCD(b, a % b)

\* n / d in lowest terms, d > 0.
Rat(n, d) ==
    LET g == GCD(Abs(n), Abs(d))
        s == IF d < 0 THEN -1 ELSE 1
    IN  [num |-> (s * n) \div g, den |-> (s * d) \div g]

RatMul(a, b) == Rat(a.num * b.num, a.den * b.den)

RatLess(a, b) == a.num * b.den < b.num * a.den

RatAdd(a, b) == Rat(a.num * b.den + b.num * a.den, a.den * b.den)

-----------------------------------------------------------------------------
(* TradingStrategy *)

\* PriceState(current_price, low_price, high_price, last_update) with
\* entry_condition_met defaulting to False.  last_update is written and never
\* read anywhere in the repository; it is left out of the state.
PriceState(current_price, low_price, high_price) ==
    [current_price |-> current_price,
     low_price |-> low_price,
     high_price |-> high_price,
     entry_condition_met |-> FALSE]

\* TradingStrategy.__init__
NewStrategy ==
    [price_states |-> <<>>,
     current_position |-> None,
     position_entry_price |-> NoValue,
     position_high |-> NoValue]

\* A faulty loop body: the low follows the price without the comparison.
UpdateState_LowFollowsPrice(price_states, outcome, current_price) ==
    IF outcome \notin DOMAIN price_states
    THEN PriceState(current_price, current_price, current_price)
    ELSE LET state == price_states[outcome]
         IN  [state EXCEPT
                !.current_price = current_price,
                !.low_price = current_price,
                !.high_price = IF current_price > state.high_price
                               THEN current_price ELSE state.high_price]

\* A faulty loop body: a new low re-arms the entry latch.
UpdateState_RearmsOnNewLow(price_states, outcome, current_price) ==
    IF outcome \notin DOMAIN price_states
    THEN PriceState(current_price, current_price, current_price)
    ELSE LET state == price_states[outcome]
         IN  [state EXCEPT
                !.current_price = current_price,
                !.low_price = IF current_price < state.low_price
                              THEN current_price ELSE state.low_price,
                !.high_price = IF current_price > state.high_price
                               THEN current_price ELSE state.high_price,
                !.entry_condition_met = IF current_price < state.low_price
                                        THEN FALSE ELSE state.entry_condition_met]

\* The body of update_prices' loop for one outcome that is in `prices`.
UpdateState(price_states, outcome, current_price) ==
    IF outcome \notin DOMAIN price_states
    THEN PriceState(current_price, current_price, current_price)
    ELSE LET state == price_states[outcome]
         IN  [state EXCEPT
                !.current_price = current_price,
                !.low_price = IF current_price < state.low_price
                              THEN current_price ELSE state.low_price,
                !.high_price = IF current_price > state.high_price
                               THEN current_price ELSE state.high_price]

\* The tail of update_prices: the open position's high.
UpdatePositionHigh(s, prices) ==
    IF s.current_position # None /\ s.current_position \in DOMAIN prices
    THEN LET current_pos_price == prices[s.current_position]
         IN  IF s.position_high = NoValue \/ current_pos_price > s.position_high
             THEN current_pos_price
             ELSE s.position_high
    ELSE s.position_high

\* A faulty update_prices: an outcome missing from the snapshot loses its
\* state.
update_prices_DropsMissing(s, prices) ==
    [s EXCEPT
       !.price_states =
           [o \in DOMAIN prices \cap Outcomes |->
               UpdateState(s.price_states, o, prices[o])],
       !.position_high = UpdatePositionHigh(s, prices)]

\* update_prices(prices): prices is a function from the outcomes present in the
\* snapshot to their prices.
update_prices(s, prices) ==
    [s EXCEPT
       !.price_states =
           [o \in (DOMAIN s.price_states) \cup (DOMAIN prices \cap Outcomes) |->
               IF o \in DOMAIN prices
               THEN UpdateState(s.price_states, o, prices[o])
               ELSE s.price_states[o]],
       !.position_high = UpdatePositionHigh(s, prices)]

\* A faulty condition 1: a low of 0 is not set aside.
RisePercentMet_NoGuard(state) ==
    (state.current_price - state.low_price) * 100
       >= entry_threshold_percent * state.low_price

\* Condition 1 of check_entry_signal for one state.
RisePercentMet(state) ==
    /\ state.low_price > 0
    /\ (state.current_price - state.low_price) * 100
          >= entry_threshold_percent * state.low_price

\* A faulty rule (a): the latch is not consulted.
RuleA_IgnoresLatch(state) == RisePercentMet(state)

\* `increase_percent >= ... and not state.entry_condition_met`
RuleA(state) == RisePercentMet(state) /\ ~state.entry_condition_met

\* A faulty condition 2: the latch is not looked at.
RuleB_IgnoresLatch(state) == state.current_price >= entry_price_threshold

\* Condition 2 of check_entry_signal for one state.
RuleB(state) ==
    ~state.entry_condition_met /\ state.current_price >= entry_price_threshold

\* A faulty loop: a signal through rule (b) sets the latch too.
RECURSIVE EntryLoop_LatchesOnB(_, _)
EntryLoop_LatchesOnB(s, i) ==
    IF i > Len(OutcomeOrder)
    THEN [strategy |-> s, signal |-> None, rule |-> "none"]
    ELSE LET outcome == OutcomeOrder[i]
             latched == [s EXCEPT !.price_states[outcome].entry_condition_met = TRUE]
         IN  IF outcome \notin DOMAIN s.price_states
             THEN EntryLoop_LatchesOnB(s, i + 1)
             ELSE IF RuleA(s.price_states[outcome])
             THEN [strategy |-> latched, signal |-> outcome, rule |-> "a"]
             ELSE IF RuleB(s.price_states[outcome])
             THEN [strategy |-> latched, signal |-> outcome, rule |-> "b"]
             ELSE EntryLoop_LatchesOnB(s, i + 1)

\* A faulty loop: rule (b) is tried before rule (a).
RECURSIVE EntryLoop_RuleBFirst(_, _)
EntryLoop_RuleBFirst(s, i) ==
    IF i > Len(OutcomeOrder)
    THEN [strategy |-> s, signal |-> None, rule |-> "none"]
    ELSE LET outcome == OutcomeOrder[i]
         IN  IF outcome \notin DOMAIN s.price_states
             THEN EntryLoop_RuleBFirst(s, i + 1)
             ELSE IF RuleB(s.price_states[outcome])
             THEN [strategy |-> s, signal |-> outcome, rule |-> "b"]
             ELSE IF RuleA(s.price_states[outcome])
             THEN [strategy |->
                      [s EXCEPT !.price_states[outcome].entry_condition_met = TRUE],
                   signal |-> outcome, rule |-> "a"]
             ELSE EntryLoop_RuleBFirst(s, i + 1)

\* The loop of check_entry_signal from the i-th outcome of OutcomeOrder on.
RECURSIVE EntryLoop(_, _)
EntryLoop(s, i) ==
    IF i > Len(OutcomeOrder)
    THEN [strategy |-> s, signal |-> None, rule |-> "none"]
    ELSE LET outcome == OutcomeOrder[i]
         IN  IF outcome \notin DOMAIN s.price_states
             THEN EntryLoop(s, i + 1)
             ELSE LET state == s.price_states[outcome]
                  IN  IF RuleA(state)
                      THEN [strategy |->
                               [s EXCEPT !.price_states[outcome].entry_condition_met = TRUE],
                            signal |-> outcome, rule |-> "a"]
                      ELSE IF RuleB(state)
                      THEN [strategy |-> s, signal |-> outcome, rule |-> "b"]
                      ELSE EntryLoop(s, i + 1)

\* A faulty check_entry_signal: an open position does not stop the check.
check_entry_signal_IgnoresPosition(s) == EntryLoop(s, 1)

\* check_entry_signal(): the strategy afterwards, the outcome returned and the
\* rule (the log line) that produced it.
check_entry_signal(s) ==
    IF s.current_position # None
    THEN [strategy |-> s, signal |-> None, rule |-> "none"]
    ELSE EntryLoop(s, 1)

\* A faulty drop test: a drop of exactly exit_reversal_percent does not count.
DropPercentMet_Strict(position_high, current_price) ==
    (position_high - current_price) * 100 > exit_reversal_percent * position_high

\* The drop test of check_exit_signal.
DropPercentMet(position_high, current_price) ==
    (position_high - current_price) * 100 >= exit_reversal_percent * position_high

\* check_exit_signal()
check_exit_signal(s) ==
    IF s.current_position = None
    THEN FALSE
    ELSE IF s.current_position \notin DOMAIN s.price_states
    THEN FALSE
    ELSE /\ s.position_high # NoValue
         /\ s.position_high # 0
         /\ s.position_high > 0
         /\ DropPercentMet(s.position_high,
                           s.price_states[s.current_position].current_price)

\* A faulty enter_position: the position's high starts at the outcome's
\* tracked high when that is above the entry price.
enter_position_InheritsHigh(s, outcome, entry_price) ==
    [s EXCEPT
       !.current_position = outcome,
       !.position_entry_price = entry_price,
       !.position_high =
           IF /\ outcome \in DOMAIN s.price_states
              /\ s.price_states[outcome].high_price > entry_price
           THEN s.price_states[outcome].high_price
           ELSE entry_price]

\* enter_position(outcome, entry_price)
enter_position(s, outcome, entry_price) ==
    [s EXCEPT
       !.current_position = outcome,
       !.position_entry_price = entry_price,
       !.position_high = entry_price]

\* A faulty inverse: every exit flips to DOWN.
InversePosition_AlwaysDown(outcome) == "DOWN"

\* The inverse outcome computed by exit_position.
InversePosition(outcome) == IF outcome = "UP" THEN "DOWN" ELSE "UP"

\* exit_position(): the strategy afterwards and the outcome returned.
exit_position(s) ==
    IF s.current_position = None
    THEN [strategy |-> s, inverse |-> None]
    ELSE [strategy |-> [s EXCEPT
                          !.current_position = None,
                          !.position_entry_price = NoValue,
                          !.position_high = NoValue],
          inverse |-> InversePosition(s.current_position)]

\* A faulty reset_tracking: the position is cleared, the price states stay.
reset_tracking_KeepsStates(s) ==
    [s EXCEPT
       !.current_position = None,
       !.position_entry_price = NoValue,
       !.position_high = NoValue]

\* reset_tracking()
reset_tracking(s) ==
    [s EXCEPT
       !.price_states = <<>>,
       !.current_position = None,
       !.position_entry_price = NoValue,
       !.position_high = NoValue]

-----------------------------------------------------------------------------
(* PositionTracker *)

\* A faulty isoformat: whole seconds only.
isoformat_SecondsOnly(t) == [seconds |-> t \div 1000000, fraction |-> <<>>]

\* datetime.isoformat(): seconds, and the microseconds only when they are not 0
\* ("2024-01-01T00:00:01" against "2024-01-01T00:00:01.500000").  A datetime is
\* the number of microseconds since the start of the run.
isoformat(t) ==
    [seconds |-> t \div 1000000,
     fraction |-> IF t % 1000000 = 0 THEN <<>> ELSE <<t % 1000000>>]

\* datetime.fromisoformat()
fromisoformat(text) ==
    text.seconds * 1000000 + (IF text.fraction = <<>> THEN 0 ELSE text.fraction[1])

\* Position(outcome, entry_price, size, entry_time, entry_order_id) with the
\* exit fields defaulting to None.
Position(outcome, entry_price, size, entry_time, entry_order_id) ==
    [outcome |-> outcome,
     entry_price |-> entry_price,
     size |-> size,
     entry_time |-> entry_time,
     entry_order_id |-> entry_order_id,
     exit_price |-> NoValue,
     exit_time |-> NoValue,
     exit_order_id |-> None,
     pnl |-> <<>>]

\* Position.to_dict(): the dataclass as a dict, its datetimes as ISO text.
to_dict(p) ==
    [outcome |-> p.outcome,
     entry_price |-> p.entry_price,
     size |-> p.size,
     entry_time |-> isoformat(p.entry_time),
     entry_order_id |-> p.entry_order_id,
     exit_price |-> p.exit_price,
     exit_time |-> IF p.exit_time # NoValue THEN <<isoformat(p.exit_time)>> ELSE <<>>,
     exit_order_id |-> p.exit_order_id,
     pnl |-> p.pnl]

\* The fields of the Position dataclass, and those without a default.
PositionFields ==
    {"outcome", "entry_price", "size", "entry_time", "entry_order_id",
     "exit_price", "exit_time", "exit_order_id", "pnl"}

RequiredFields == {"outcome", "entry_price", "size", "entry_time"}

\* Whether the body of _load_history's loop gets through a stored entry:
\* data['entry_time'] raises KeyError without the key, and Position(**data)
\* raises TypeError when a required field is missing or a key is no field.
\* (Text that fromisoformat rejects raises too; it is not among the entries
\* modelled.)
Loadable(data) ==
    /\ RequiredFields \subseteq DOMAIN data
    /\ DOMAIN data \subseteq PositionFields

\* dict.get(key, default), and a dataclass field left to its default.
Get(data, key, default) == IF key \in DOMAIN data THEN data[key] ELSE default

\* The body of _load_history's loop for an entry it gets through:
\* Position(**data) after the datetimes are parsed.
from_dict(data) ==
    [outcome |-> data.outcome,
     entry_price |-> data.entry_price,
     size |-> data.size,
     entry_time |-> fromisoformat(data.entry_time),
     entry_order_id |-> Get(data, "entry_order_id", None),
     exit_price |-> Get(data, "exit_price", NoValue),
     exit_time |-> IF Get(data, "exit_time", <<>>) # <<>>
                   THEN fromisoformat(data.exit_time[1]) ELSE NoValue,
     exit_order_id |-> Get(data, "exit_order_id", None),
     pnl |-> Get(data, "pnl", <<>>)]

\* The history file: missing, holding a JSON list, or holding text json.load
\* rejects.
FileMissing == [status |-> "missing", data |-> <<>>]

FileHolding(data) == [status |-> "ok", data |-> data]

FileCorrupt == [status |-> "corrupt", data |-> <<>>]

\* What may happen to the file in _save_history: the write succeeds, open()
\* raises (the file is as it was), or json.dump raises after open(..., 'w')
\* truncated the file.
WriteOutcomes == {"ok", "open_failed", "dump_failed"}

\* A faulty _save_history: the file is opened in append mode and the position
\* just closed is added to what it holds.
save_history_Appends(position_history, file, io) ==
    CASE io = "ok" ->
            FileHolding(file.data
                           \o <<to_dict(position_history[Len(position_history)])>>)
      [] io = "open_failed" -> file
      [] OTHER -> FileCorrupt

\* _save_history(): the file after it.  Every exception is caught and logged.
save_history(position_history, file, io) ==
    CASE io = "ok" ->
            FileHolding([i \in 1..Len(position_history) |-> to_dict(position_history[i])])
      [] io = "open_failed" -> file
      [] OTHER -> FileCorrupt

\* The loop of _load_history from the i-th stored entry on: each entry is
\* appended to self.position_history as soon as it is parsed, and an exception
\* on an entry ends the loop in the except clause, which only logs.
RECURSIVE LoadLoop(_, _, _)
LoadLoop(history_data, i, position_history) ==
    IF i > Len(history_data) THEN position_history
    ELSE IF ~Loadable(history_data[i]) THEN position_history
    ELSE LoadLoop(history_data, i + 1,
                  Append(position_history, from_dict(history_data[i])))

\* _load_history(): the history after it, starting from an empty one.  A
\* missing file (FileNotFoundError) and a file json.load rejects leave it
\* empty.
load_history(file) ==
    IF file.status = "ok"
    THEN LoadLoop(file.data, 1, <<>>)
    ELSE <<>>

\* A faulty constructor: the history file is not read.
NewTracker_IgnoresFile(file) ==
    [current_position |-> <<>>, position_history |-> <<>>]

\* PositionTracker.__init__
NewTracker(file) ==
    [current_position |-> <<>>,
     position_history |-> load_history(file)]

\* A faulty open_position: a position that is open blocks the call.
open_position_KeepsFirst(t, outcome, entry_price, size, order_id, now) ==
    IF t.current_position # <<>>
    THEN [tracker |-> t, warning |-> TRUE]
    ELSE [tracker |-> [t EXCEPT !.current_position =
                         <<Position(outcome, entry_price, size, now, order_id)>>],
          warning |-> FALSE]

\* open_position(outcome, entry_price, size, order_id) at time now: the tracker
\* afterwards and whether the warning was logged.
open_position(t, outcome, entry_price, size, order_id, now) ==
    [tracker |-> [t EXCEPT !.current_position =
                     <<Position(outcome, entry_price, size, now, order_id)>>],
     warning |-> t.current_position # <<>>]

\* A faulty P&L: the price difference, not multiplied by the size.
PnL_IgnoresSize(position, price) == Rat(price - position.entry_price, 1)

\* The P&L of close_position and get_current_pnl, in cents.
PnL(position, price) ==
    RatMul(Rat(price - position.entry_price, 1), position.size)

\* The position close_position appends to the history.
ClosedPosition(position, exit_price, order_id, now) ==
    [position EXCEPT
       !.exit_price = exit_price,
       !.exit_time = now,
       !.exit_order_id = order_id,
       !.pnl = <<PnL(position, exit_price)>>]

\* A faulty close_position: a write that fails undoes the close.
close_position_RollsBack(t, file, exit_price, order_id, now, io) ==
    IF t.current_position = <<>>
    THEN [tracker |-> t, file |-> file, pnl |-> <<>>, warning |-> TRUE]
    ELSE LET closed == ClosedPosition(t.current_position[1], exit_price, order_id, now)
             history == Append(t.position_history, closed)
         IN  IF io = "ok"
             THEN [tracker |-> [current_position |-> <<>>, position_history |-> history],
                   file |-> save_history(history, file, io),
                   pnl |-> closed.pnl,
                   warning |-> FALSE]
             ELSE [tracker |-> t, file |-> file, pnl |-> <<>>, warning |-> FALSE]

\* A faulty close_position: the closed position goes to the front of the
\* history.
close_position_Prepends(t, file, exit_price, order_id, now, io) ==
    IF t.current_position = <<>>
    THEN [tracker |-> t, file |-> file, pnl |-> <<>>, warning |-> TRUE]
    ELSE LET closed == ClosedPosition(t.current_position[1], exit_price, order_id, now)
             history == <<closed>> \o t.position_history
         IN  [tracker |-> [current_position |-> <<>>, position_history |-> history],
              file |-> save_history(history, file, io),
              pnl |-> closed.pnl,
              warning |-> FALSE]

\* close_position(exit_price, order_id) at time now, the write ending as io:
\* the tracker and the file afterwards, the value returned (<<>> is None) and
\* whether the warning was logged.
close_position(t, file, exit_price, order_id, now, io) ==
    IF t.current_position = <<>>
    THEN [tracker |-> t, file |-> file, pnl |-> <<>>, warning |-> TRUE]
    ELSE LET closed == ClosedPosition(t.current_position[1], exit_price, order_id, now)
             history == Append(t.position_history, closed)
         IN  [tracker |-> [current_position |-> <<>>, position_history |-> history],
              file |-> save_history(history, file, io),
              pnl |-> closed.pnl,
              warning |-> FALSE]

\* get_current_pnl(current_price): <<>> is None.
get_current_pnl(t, current_price) ==
    IF t.current_position = <<>>
    THEN <<>>
    ELSE <<PnL(t.current_position[1], current_price)>>

\* The sum of the P&L of the positions of a history that have one.
RECURSIVE SumPnl(_)
SumPnl(position_history) ==
    IF position_history = <<>> THEN Rat(0, 1)
    ELSE LET p == Head(position_history)
         IN  IF p.pnl = <<>> THEN SumPnl(Tail(position_history))
             ELSE RatAdd(p.pnl[1], SumPnl(Tail(position_history)))

\* A faulty get_statistics: a P&L of 0 counts as a loss.
get_statistics_ZeroIsLoss(t) ==
    LET h == t.position_history
        total_pnl == SumPnl(h)
        winning_trades ==
            Cardinality({i \in 1..Len(h) : h[i].pnl # <<>> /\ h[i].pnl[1].num > 0})
        losing_trades ==
            Cardinality({i \in 1..Len(h) : h[i].pnl # <<>> /\ h[i].pnl[1].num <= 0})
    IN  IF h = <<>>
        THEN [total_trades |-> 0, total_pnl |-> Rat(0, 1), winning_trades |-> 0,
              losing_trades |-> 0, win_rate |-> Rat(0, 1), average_pnl |-> Rat(0, 1)]
        ELSE [total_trades |-> Len(h),
              total_pnl |-> total_pnl,
              winning_trades |-> winning_trades,
              losing_trades |-> losing_trades,
              win_rate |-> Rat(winning_trades * 100, Len(h)),
              average_pnl |-> Rat(total_pnl.num, total_pnl.den * Len(h))]

\* get_statistics(): the dict returned; it reads the history only.
get_statistics(t) ==
    LET h == t.position_history
        total_trades == Len(h)
        total_pnl == SumPnl(h)
        winning_trades ==
            Cardinality({i \in 1..Len(h) : h[i].pnl # <<>> /\ h[i].pnl[1].num > 0})
        losing_trades ==
            Cardinality({i \in 1..Len(h) : h[i].pnl # <<>> /\ h[i].pnl[1].num < 0})
    IN  IF h = <<>>
        THEN [total_trades |-> 0, total_pnl |-> Rat(0, 1), winning_trades |-> 0,
              losing_trades |-> 0, win_rate |-> Rat(0, 1), average_pnl |-> Rat(0, 1)]
        ELSE [total_trades |-> total_trades,
              total_pnl |-> total_pnl,
              winning_trades |-> winning_trades,
              losing_trades |-> losing_trades,
              win_rate |-> Rat(winning_trades * 100, total_trades),
              average_pnl |-> Rat(total_pnl.num, total_pnl.den * total_trades)]

-----------------------------------------------------------------------------
(* PolymarketTradingBot *)

\* The $1.01 minimum order value of execute_trade and handle_entry_signal, in
\* cents.
MinOrderValue == 101

\* A result of client.get_current_prices: <<>> for None (or an empty dict, which
\* `not prices` treats alike), else <<prices>> with prices a function from the
\* outcomes found to their prices.  A dict that holds neither UP nor DOWN (other
\* token names only) is the function with the empty domain.
Snapshots(P) == UNION {[S -> P] : S \in SUBSET Outcomes}

Fetches(P) == {<<>>} \cup {<<prices>> : prices \in Snapshots(P)}

\* The results of get_current_prices as far as a caller that reads only
\* prices[outcome] can tell them apart: None, a dict without the outcome, and a
\* dict with it.
FetchesFor(P, outcome) ==
    {<<>>, <<[o \in {} |-> 0]>>} \cup {<<[o \in {outcome} |-> p]>> : p \in P}

\* `prices and outcome in prices`
HasPrice(fetch, outcome) == fetch # <<>> /\ outcome \in DOMAIN fetch[1]

\* prices[outcome] as a handler reads it after its trade, NoValue when the
\* handler finds no price and reads none.
PriceRead(fetch, outcome) ==
    IF HasPrice(fetch, outcome) THEN fetch[1][outcome] ELSE NoValue

\* The size computed by execute_trade and by handle_entry_signal for a price
\* that is not 0, and whether the minimum order value adjusted it.
OrderSize(position_value, price) ==
    LET size == Rat(position_value, price)
        order_value == RatMul(size, Rat(price, 1))
        adjust == RatLess(order_value, Rat(MinOrderValue, 1))
    IN  [size |-> IF adjust THEN Rat(MinOrderValue, price) ELSE size,
         adjusted |-> adjust]

\* execute_trade(outcome, side): its result, given whether the market lists a
\* token for the outcome, the prices fetched and whether place_order returned
\* an order id.  A price of 0 raises ZeroDivisionError, which the method's
\* except clause turns into False.
execute_trade(outcome, token_found, fetch, order_placed) ==
    /\ token_found
    /\ HasPrice(fetch, outcome)
    /\ fetch[1][outcome] # 0
    /\ order_placed

\* What handle_entry_signal does after its BUY succeeded, given the prices it
\* fetches: "skip" (no price for the outcome), "raise" (ZeroDivisionError on a
\* price of 0; NameError on `logger`, which main.py never defines, when the
\* size is adjusted to the minimum), or "record".
EntryStep(position_value, outcome, fetch) ==
    IF ~HasPrice(fetch, outcome) THEN "skip"
    ELSE IF fetch[1][outcome] = 0 THEN "raise"
    ELSE IF OrderSize(position_value, fetch[1][outcome]).adjusted THEN "raise"
    ELSE "record"

-----------------------------------------------------------------------------
(* The state after construction *)

\* ret: the call (op), its arguments (arg for a price, signal for the outcome
\* of enter_position, prices for the snapshot of update_prices), what it
\* returned (signal and rule for check_entry_signal and exit_position, flag for
\* check_exit_signal,
\* value for a P&L, stats for get_statistics) and what it logged (warning;
\* saved, the "Saved position history" line of a write that succeeded).
NoResult == [op |-> "none", arg |-> NoValue, signal |-> None, rule |-> "none",
             flag |-> FALSE, value |-> <<>>, warning |-> FALSE, saved |-> FALSE,
             stats |-> <<>>, prices |-> <<>>, unsaved |-> 0]

Result(op) == [NoResult EXCEPT !.op = op]

\* The values of position_value_usdc a config.json may give, in cents: one
\* below the minimum order value and one above it.
PositionValues == {100, 500}

InitCommon ==
    /\ strategy = NewStrategy
    /\ history_file = FileMissing
    /\ tracker = NewTracker(FileMissing)
    /\ clock = 0
    /\ ret = NoResult
    /\ rule_a_fired = [o \in Outcomes |-> 0]
    /\ pc = "idle"
    /\ pending = None
    /\ trades = <<>>
    /\ ledger_calls = <<>>
    /\ engine_calls = <<>>
    /\ tracking_price = NoValue

\* A TradingStrategy and a PositionTracker on their own, no bot around them.
Init == InitCommon /\ position_value_usdc = NoValue

\* PolymarketTradingBot.__init__
InitBot == InitCommon /\ position_value_usdc \in PositionValues

botVars == <<position_value_usdc, pc, pending, trades, ledger_calls, engine_calls,
            tracking_price>>

ledgerVars == <<tracker, history_file, clock>>

-----------------------------------------------------------------------------
(* Calls on a TradingStrategy, in any order *)

UpdatePrices(P) ==
    \E prices \in Snapshots(P) :
        /\ strategy' = update_prices(strategy, prices)
        /\ ret' = [Result("update_prices") EXCEPT !.prices = <<prices>>]
        /\ UNCHANGED <<rule_a_fired, ledgerVars, botVars>>

\* The history of rule (a) signals after a check_entry_signal that returned r.
CountRuleA(fired, r) ==
    IF r.rule = "a" THEN [fired EXCEPT ![r.signal] = @ + 1] ELSE fired

CheckEntrySignal ==
    LET r == check_entry_signal(strategy)
    IN  /\ strategy' = r.strategy
        /\ ret' = [Result("check_entry_signal") EXCEPT !.signal = r.signal, !.rule = r.rule]
        /\ rule_a_fired' = CountRuleA(rule_a_fired, r)
        /\ UNCHANGED <<ledgerVars, botVars>>

CheckExitSignal ==
    /\ ret' = [Result("check_exit_signal") EXCEPT !.flag = check_exit_signal(strategy)]
    /\ UNCHANGED <<strategy, rule_a_fired, ledgerVars, botVars>>

EnterPosition(P) ==
    \E outcome \in Outcomes, entry_price \in P :
        /\ strategy' = enter_position(strategy, outcome, entry_price)
        /\ ret' = [Result("enter_position") EXCEPT !.signal = outcome, !.arg = entry_price]
        /\ UNCHANGED <<rule_a_fired, ledgerVars, botVars>>

ExitPosition ==
    LET r == exit_position(strategy)
    IN  /\ strategy' = r.strategy
        /\ ret' = [Result("exit_position") EXCEPT !.signal = r.inverse]
        /\ UNCHANGED <<rule_a_fired, ledgerVars, botVars>>

ResetTracking ==
    /\ strategy' = reset_tracking(strategy)
    /\ ret' = Result("reset_tracking")
    /\ rule_a_fired' = [o \in Outcomes |-> 0]
    /\ UNCHANGED <<ledgerVars, botVars>>

NextStrategy(P) ==
    \/ UpdatePrices(P)
    \/ CheckEntrySignal
    \/ CheckExitSignal
    \/ EnterPosition(P)
    \/ ExitPosition
    \/ ResetTracking

Next == NextStrategy(PriceSet)

Spec == Init /\ [][Next]_vars

NextExit == NextStrategy(ExitPriceSet)

SpecExit == Init /\ [][NextExit]_vars

-----------------------------------------------------------------------------
(* Calls on a PositionTracker, in any order *)

\* The longest history the ledger specification lets grow.
MaxHistory == 2

\* The arguments of open_position: outcome, entry_price, size, order_id.
OpenInputs ==
    {<<"UP", 40, Rat(5, 2), None>>, <<"DOWN", 55, Rat(1, 1), "order-1">>}

\* The arguments of close_position: exit_price, order_id.
CloseInputs == {<<55, None>>, <<40, "order-2">>}

\* The instants datetime.now() may return, in microseconds.
Instants == {0, 1000000, 1500000}

Tick ==
    \E t \in Instants :
        /\ t > clock
        /\ clock' = t
        /\ UNCHANGED <<strategy, tracker, history_file, ret, rule_a_fired, botVars>>

OpenPosition ==
    \E in \in OpenInputs :
        LET r == open_position(tracker, in[1], in[2], in[3], in[4], clock)
        IN  /\ tracker' = r.tracker
            /\ ret' = [Result("open_position") EXCEPT !.arg = in[2], !.warning = r.warning]
            /\ UNCHANGED <<strategy, history_file, clock, rule_a_fired, botVars>>

ClosePosition ==
    \E in \in CloseInputs, io \in WriteOutcomes :
        LET r == close_position(tracker, history_file, in[1], in[2], clock, io)
        IN  /\ tracker.current_position # <<>> =>
                   Len(tracker.position_history) < MaxHistory
            /\ tracker' = r.tracker
            /\ history_file' = r.file
            /\ ret' = [Result("close_position") EXCEPT
                         !.arg = in[1], !.value = r.pnl, !.warning = r.warning,
                         !.saved = (~r.warning /\ io = "ok"),
                         !.unsaved = Len(tracker.position_history)
                                        - Len(history_file.data)]
            /\ UNCHANGED <<strategy, clock, rule_a_fired, botVars>>

NextLedger ==
    \/ Tick
    \/ OpenPosition
    \/ ClosePosition

SpecLedger == Init /\ [][NextLedger]_vars

-----------------------------------------------------------------------------
(* Calls on either object.  A TradingStrategy and a PositionTracker share  *)
(* no state, so a behaviour calls the one while the other is as it was     *)
(* constructed.                                                            *)

NextEither ==
    \/ /\ tracker = NewTracker(FileMissing)
       /\ history_file = FileMissing
       /\ clock = 0
       /\ Next
    \/ /\ strategy = NewStrategy
       /\ NextLedger

SpecEither == Init /\ [][NextEither]_vars

-----------------------------------------------------------------------------
(* A PositionTracker across restarts of the process: the file found at     *)
(* startup is whatever an earlier run, or anything else, left there.       *)

\* The most entries the file found at the first startup holds.
MaxStored == 2

\* An entry as an earlier run wrote it.
StoredEntry ==
    to_dict(ClosedPosition(Position("UP", 40, Rat(5, 2), 0, None), 60, None, 1500000))

\* An entry without size and entry_time.
MalformedEntry == [outcome |-> "DOWN", entry_price |-> 55]

StartupEntries == {StoredEntry, MalformedEntry}

StartupFiles ==
    {FileMissing, FileCorrupt}
       \cup {FileHolding(data) :
                data \in UNION {[1..n -> StartupEntries] : n \in 0..MaxStored}}

\* PositionTracker.__init__ on the file found.
InitRestart ==
    /\ strategy = NewStrategy
    /\ history_file \in StartupFiles
    /\ tracker = NewTracker(history_file)
    /\ clock = 0
    /\ ret = Result("__init__")
    /\ rule_a_fired = [o \in Outcomes |-> 0]
    /\ position_value_usdc = NoValue
    /\ pc = "idle"
    /\ pending = None
    /\ trades = <<>>
    /\ ledger_calls = <<>>
    /\ engine_calls = <<>>
    /\ tracking_price = NoValue

\* The process stops, whatever the ledger holds, and a new one constructs its
\* PositionTracker.
Restart ==
    /\ tracker' = NewTracker(history_file)
    /\ ret' = Result("__init__")
    /\ UNCHANGED <<strategy, history_file, clock, rule_a_fired, botVars>>

GetCurrentPnl ==
    \E in \in CloseInputs :
        /\ ret' = [Result("get_current_pnl") EXCEPT
                     !.arg = in[1], !.value = get_current_pnl(tracker, in[1])]
        /\ UNCHANGED <<strategy, ledgerVars, rule_a_fired, botVars>>

GetStatistics ==
    /\ ret' = [Result("get_statistics") EXCEPT !.stats = <<get_statistics(tracker)>>]
    /\ UNCHANGED <<strategy, ledgerVars, rule_a_fired, botVars>>

NextRestart ==
    \/ NextLedger
    \/ Restart
    \/ GetCurrentPnl
    \/ GetStatistics

SpecRestart == InitRestart /\ [][NextRestart]_vars

-----------------------------------------------------------------------------
(* The orchestrator's trading cycle.                                       *)
(*                                                                         *)
(* run_trading_cycle is cut where it waits for the exchange: at the poll   *)
(* that starts it, at each execute_trade, and at the price fetch that      *)
(* follows a successful trade.  pc names the next piece to run; "idle" is  *)
(* the boundary between two cycles (the sleep of run()).  An exception     *)
(* raised in a piece is caught by run_trading_cycle's except clause, which *)
(* logs it and ends the cycle.  The _cycle_count statistics log at the end *)
(* of a cycle reads the ledger and changes nothing; it is left out.        *)
(***************************************************************************)

\* The closed trades after which the bot specification polls no more.
MaxTrades == 1

\* The prices of the bot's feed: 0, a low, and a price at the absolute
\* threshold that is also a 50% rise from the low, and from which the low is a
\* 33% drop.
BotPriceSet == {0, 40, 60}

\* A faulty cycle start: the entry check is made on the prices of the cycle
\* before, update_prices is not called.
CycleStart_ChecksWithoutUpdate(s, t, fetch) ==
    LET r == check_entry_signal(s)
    IN  [strategy |-> r.strategy, rule |-> r.rule, signal |-> r.signal,
         pc |-> IF r.signal # None THEN "entry_trade" ELSE "idle",
         pending |-> r.signal, calls |-> <<"check_entry_signal">>]

\* run_trading_cycle up to its first trade, given the prices polled: the
\* strategy afterwards, the check_entry_signal result if one was made, the
\* piece to run next on which outcome, and the calls made on the strategy.
CycleStart(s, t, fetch) ==
    IF fetch = <<>>
    THEN [strategy |-> s, rule |-> "none", signal |-> None, pc |-> "idle",
          pending |-> None, calls |-> <<>>]
    ELSE LET s1 == update_prices(s, fetch[1])
         IN  IF s1.current_position = None
             THEN LET r == check_entry_signal(s1)
                  IN  [strategy |-> r.strategy, rule |-> r.rule, signal |-> r.signal,
                       pc |-> IF r.signal # None THEN "entry_trade" ELSE "idle",
                       pending |-> r.signal,
                       calls |-> <<"update_prices", "check_entry_signal">>]
             ELSE LET current_pos == s1.current_position
                      current_price == IF current_pos \in DOMAIN fetch[1]
                                       THEN fetch[1][current_pos] ELSE 0
                      unrealized_pnl == get_current_pnl(t, current_price)
                  IN  \* f"{unrealized_pnl:.2f}" raises TypeError on None
                      IF unrealized_pnl = <<>>
                      THEN [strategy |-> s1, rule |-> "none", signal |-> None,
                            pc |-> "idle", pending |-> None,
                            calls |-> <<"update_prices">>]
                      ELSE IF check_exit_signal(s1)
                      THEN [strategy |-> s1, rule |-> "none", signal |-> None,
                            pc |-> "exit_trade", pending |-> current_pos,
                            calls |-> <<"update_prices", "check_exit_signal">>]
                      ELSE [strategy |-> s1, rule |-> "none", signal |-> None,
                            pc |-> "idle", pending |-> None,
                            calls |-> <<"update_prices", "check_exit_signal">>]

Poll ==
    /\ pc = "idle"
    /\ Len(tracker.position_history) < MaxTrades
    /\ \E fetch \in Fetches(BotPriceSet) :
          LET c == CycleStart(strategy, tracker, fetch)
          IN  /\ strategy' = c.strategy
              /\ rule_a_fired' = CountRuleA(rule_a_fired, c)
              /\ pc' = c.pc
              /\ pending' = c.pending
              /\ trades' = <<>>
              /\ ledger_calls' = <<>>
              /\ engine_calls' = c.calls
              /\ tracking_price' = NoValue
              /\ UNCHANGED <<ledgerVars, ret, position_value_usdc>>

\* A faulty test of the trade's result: the handler goes on whatever it is.
AfterTrade_IgnoresResult(side, ok) ==
    IF side = "BUY" THEN "entry_record" ELSE "exit_record"

\* `if self.execute_trade(outcome, side):` in handle_entry_signal and
\* handle_exit_signal: the piece that runs after a trade.
AfterTrade(side, ok) ==
    IF ~ok THEN "idle"
    ELSE IF side = "BUY" THEN "entry_record" ELSE "exit_record"

ExecuteTrade ==
    /\ pc \in {"entry_trade", "exit_trade"}
    /\ \E token_found \in BOOLEAN, fetch \in FetchesFor(BotPriceSet, pending),
          order_placed \in BOOLEAN :
          LET side == IF pc = "entry_trade" THEN "BUY" ELSE "SELL"
              ok == execute_trade(pending, token_found, fetch, order_placed)
          IN  /\ trades' = Append(trades, [side |-> side, outcome |-> pending, ok |-> ok])
              /\ pc' = AfterTrade(side, ok)
              /\ pending' = IF pc' = "idle" THEN None ELSE pending
              /\ UNCHANGED <<strategy, ledgerVars, ret, rule_a_fired,
                             position_value_usdc, ledger_calls, engine_calls,
                             tracking_price>>

\* A faulty handle_entry_signal: the strategy is updated, the ledger is not.
handle_entry_signal_StrategyOnly(s, t, position_value, outcome, fetch, now) ==
    IF EntryStep(position_value, outcome, fetch) = "record"
    THEN [strategy |-> enter_position(s, outcome, fetch[1][outcome]),
          tracker |-> t, calls |-> <<>>, engine |-> <<"enter_position">>]
    ELSE [strategy |-> s, tracker |-> t, calls |-> <<>>, engine |-> <<>>]

\* handle_entry_signal after its BUY succeeded, given the prices it fetches:
\* the strategy and the tracker afterwards, the ledger calls made (calls) and
\* the calls made on the strategy (engine).
handle_entry_signal(s, t, position_value, outcome, fetch, now) ==
    IF EntryStep(position_value, outcome, fetch) = "record"
    THEN LET entry_price == fetch[1][outcome]
             size == OrderSize(position_value, entry_price).size
         IN  [strategy |-> enter_position(s, outcome, entry_price),
              tracker |-> open_position(t, outcome, entry_price, size, None, now).tracker,
              calls |-> <<"open_position">>, engine |-> <<"enter_position">>]
    ELSE [strategy |-> s, tracker |-> t, calls |-> <<>>, engine |-> <<>>]

RecordEntry ==
    /\ pc = "entry_record"
    /\ \E fetch \in FetchesFor(BotPriceSet, pending) :
          LET r == handle_entry_signal(strategy, tracker, position_value_usdc,
                                       pending, fetch, clock)
          IN  /\ strategy' = r.strategy
              /\ tracker' = r.tracker
              /\ ledger_calls' = ledger_calls \o r.calls
              /\ engine_calls' = engine_calls \o r.engine
              /\ pc' = "idle"
              /\ pending' = None
              /\ tracking_price' = PriceRead(fetch, pending)
              /\ UNCHANGED <<history_file, clock, ret, rule_a_fired,
                             position_value_usdc, trades>>

\* A faulty handle_exit_signal: the position is closed and no flip follows.
handle_exit_signal_NoFlip(s, t, file, current_position, fetch, now, io) ==
    IF HasPrice(fetch, current_position)
    THEN [strategy |-> exit_position(s).strategy,
          tracker |-> close_position(t, file, fetch[1][current_position], None, now, io).tracker,
          file |-> close_position(t, file, fetch[1][current_position], None, now, io).file,
          calls |-> <<"close_position">>, engine |-> <<"exit_position">>,
          inverse |-> None]
    ELSE [strategy |-> s, tracker |-> t, file |-> file, calls |-> <<>>,
          engine |-> <<>>, inverse |-> None]

\* A faulty handle_exit_signal: it opens the inverse position in the ledger
\* itself, and handle_entry_signal opens it again.
handle_exit_signal_OpensInverse(s, t, file, current_position, fetch, now, io) ==
    IF HasPrice(fetch, current_position)
    THEN LET c == close_position(t, file, fetch[1][current_position], None, now, io)
             e == exit_position(s)
         IN  [strategy |-> e.strategy,
              tracker |-> open_position(c.tracker, e.inverse, fetch[1][current_position],
                                        Rat(1, 1), None, now).tracker,
              file |-> c.file,
              calls |-> <<"close_position", "open_position">>,
              engine |-> <<"exit_position">>, inverse |-> e.inverse]
    ELSE [strategy |-> s, tracker |-> t, file |-> file, calls |-> <<>>,
          engine |-> <<>>, inverse |-> None]

\* handle_exit_signal after its SELL succeeded, up to the flip, given the
\* prices it fetches and how the history write ends: the strategy, tracker and
\* file afterwards, the ledger calls made (calls), the calls made on the
\* strategy (engine) and the outcome to enter next.
handle_exit_signal(s, t, file, current_position, fetch, now, io) ==
    IF HasPrice(fetch, current_position)
    THEN LET c == close_position(t, file, fetch[1][current_position], None, now, io)
             e == exit_position(s)
         IN  [strategy |-> e.strategy, tracker |-> c.tracker, file |-> c.file,
              calls |-> <<"close_position">>, engine |-> <<"exit_position">>,
              inverse |-> e.inverse]
    ELSE [strategy |-> s, tracker |-> t, file |-> file, calls |-> <<>>,
          engine |-> <<>>, inverse |-> None]

RecordExit ==
    /\ pc = "exit_record"
    /\ \E fetch \in FetchesFor(BotPriceSet, pending), io \in WriteOutcomes :
          LET r == handle_exit_signal(strategy, tracker, history_file, pending,
                                      fetch, clock, io)
          IN  /\ strategy' = r.strategy
              /\ tracker' = r.tracker
              /\ history_file' = r.file
              /\ ledger_calls' = ledger_calls \o r.calls
              /\ engine_calls' = engine_calls \o r.engine
              /\ pc' = IF r.inverse # None THEN "entry_trade" ELSE "idle"
              /\ pending' = r.inverse
              /\ tracking_price' = PriceRead(fetch, pending)
              /\ UNCHANGED <<clock, ret, rule_a_fired, position_value_usdc, trades>>

NextBot ==
    \/ Poll
    \/ ExecuteTrade
    \/ RecordEntry
    \/ RecordExit

SpecBot == InitBot /\ [][NextBot]_vars

-----------------------------------------------------------------------------
(* Claims about the TradingStrategy *)

\* low <= current <= high for every outcome observed.
ExtremaOrdered(s) ==
    \A o \in DOMAIN s.price_states :
        /\ s.price_states[o].low_price <= s.price_states[o].current_price
        /\ s.price_states[o].current_price <= s.price_states[o].high_price

\* C1: within one market instance (no reset_tracking), whatever calls are made
\* on the strategy, every observed outcome stays observed, its low_price never
\* increases and its high_price never decreases, and low_price <= current_price
\* <= high_price holds in every reachable state.
C1_ExtremaMonotone ==
    /\ ExtremaOrdered(strategy)
    /\ [][/\ ExtremaOrdered(strategy')
          /\ ret'.op # "reset_tracking" =>
                \A o \in DOMAIN strategy.price_states :
                    /\ o \in DOMAIN strategy'.price_states
                    /\ strategy'.price_states[o].low_price
                          <= strategy.price_states[o].low_price
                    /\ strategy'.price_states[o].high_price
                          >= strategy.price_states[o].high_price]_vars

\* An update has left an outcome's price strictly between its low and its high.
C1_Witness ==
    /\ ret.op = "update_prices"
    /\ \E o \in DOMAIN strategy.price_states :
          /\ strategy.price_states[o].low_price < strategy.price_states[o].current_price
          /\ strategy.price_states[o].current_price < strategy.price_states[o].high_price

\* C2: rule (a) fires at most once per outcome per tracking period: between two
\* reset_tracking calls check_entry_signal returns an outcome through rule (a)
\* at most once, however long its rise stays at or above the threshold.
C2_RuleAFiresOnce == \A o \in Outcomes : rule_a_fired[o] <= 1

\* check_entry_signal was called with no position open, after rule (a) had
\* fired for an outcome whose rise is still at or above the threshold, and did
\* not return through rule (a).
C2_Witness ==
    /\ ret.op = "check_entry_signal"
    /\ ret.rule # "a"
    /\ strategy.current_position = None
    /\ \E o \in DOMAIN strategy.price_states :
          /\ rule_a_fired[o] = 1
          /\ strategy.price_states[o].low_price > 0
          /\ (strategy.price_states[o].current_price - strategy.price_states[o].low_price) * 100
                >= entry_threshold_percent * strategy.price_states[o].low_price

\* C3: with a position open on a tracked outcome and position_high > 0,
\* check_exit_signal returns true exactly when (position_high - current) /
\* position_high * 100 >= exit_reversal_percent; from a high of 0.80 a price of
\* 0.75 gives true and a price of 0.77 gives false.
C3_ExitFormula ==
    (/\ ret.op = "check_exit_signal"
     /\ strategy.current_position \in DOMAIN strategy.price_states
     /\ strategy.position_high > 0)
    => LET high == strategy.position_high
           current == strategy.price_states[strategy.current_position].current_price
       IN  /\ ret.flag <=> ((high - current) * 100 >= exit_reversal_percent * high)
           /\ (high = 80 /\ current = 75) => ret.flag
           /\ (high = 80 /\ current = 77) => ~ret.flag

\* check_exit_signal returned true for a position whose high is 0.80 at a price
\* of 0.75.
C3_Witness ==
    /\ ret.op = "check_exit_signal"
    /\ ret.flag
    /\ strategy.current_position \in DOMAIN strategy.price_states
    /\ strategy.position_high = 80
    /\ strategy.price_states[strategy.current_position].current_price = 75

\* C5: exit_position called while UP is held returns DOWN, while DOWN is held
\* returns UP, and clears current_position, position_entry_price and
\* position_high; called with no position open it returns None and changes
\* nothing.
C5_ExitInverts ==
    [][ret'.op = "exit_position" =>
          /\ strategy.current_position = "UP" => ret'.signal = "DOWN"
          /\ strategy.current_position = "DOWN" => ret'.signal = "UP"
          /\ strategy.current_position # None =>
                /\ strategy'.current_position = None
                /\ strategy'.position_entry_price = NoValue
                /\ strategy'.position_high = NoValue
                /\ strategy'.price_states = strategy.price_states
          /\ strategy.current_position = None =>
                /\ ret'.signal = None
                /\ strategy' = strategy]_vars

\* exit_position has just returned UP, for a DOWN position, and no position is
\* tracked any more.
C5_Witness ==
    /\ ret.op = "exit_position"
    /\ ret.signal = "UP"
    /\ strategy.current_position = None
    /\ strategy.position_high = NoValue

\* Outcome o's entry latch is set in strategy s.
Latched(s, o) ==
    o \in DOMAIN s.price_states /\ s.price_states[o].entry_condition_met

\* C17: an outcome's entry latch, once set, stays set through every later
\* update_prices (including one that sets a new, lower low),
\* check_entry_signal, check_exit_signal, enter_position and exit_position,
\* however many of them follow; only reset_tracking clears it.
C17_LatchPersists ==
    [][/\ ret'.op # "reset_tracking" =>
             \A o \in Outcomes : Latched(strategy, o) => Latched(strategy', o)
       /\ ret'.op = "reset_tracking" =>
             \A o \in Outcomes : ~Latched(strategy', o)]_vars

\* update_prices has just set a low of 0 for an outcome whose latch is set (it
\* was set at a low above 0), and the latch is still set.
C17_Witness ==
    /\ ret.op = "update_prices"
    /\ \E o \in Outcomes :
          /\ Latched(strategy, o)
          /\ strategy.price_states[o].low_price = 0
          /\ strategy.price_states[o].current_price = 0
          /\ rule_a_fired[o] = 1

\* Rule (a) holds for outcome o in strategy s: o is tracked and unlatched and
\* its rise from a low above 0 is at least entry_threshold_percent.
HoldsA(s, o) ==
    /\ o \in DOMAIN s.price_states
    /\ ~s.price_states[o].entry_condition_met
    /\ s.price_states[o].low_price > 0
    /\ (s.price_states[o].current_price - s.price_states[o].low_price) * 100
          >= entry_threshold_percent * s.price_states[o].low_price

\* Rule (b) holds for outcome o in strategy s: o is tracked and unlatched and
\* its price is at least entry_price_threshold.
HoldsB(s, o) ==
    /\ o \in DOMAIN s.price_states
    /\ ~s.price_states[o].entry_condition_met
    /\ s.price_states[o].current_price >= entry_price_threshold

\* No outcome before o in the iteration order (UP, then DOWN) fires.
NoEarlierFires(s, o) == o = "DOWN" => (~HoldsA(s, "UP") /\ ~HoldsB(s, "UP"))

\* The case of C18 for outcome o: no position open, o unlatched, its rise from
\* its low below the threshold, its price at or above entry_price_threshold,
\* and no earlier outcome firing.
RuleBOnly(s, o) ==
    /\ s.current_position = None
    /\ HoldsB(s, o)
    /\ s.price_states[o].low_price > 0
    /\ (s.price_states[o].current_price - s.price_states[o].low_price) * 100
          < entry_threshold_percent * s.price_states[o].low_price
    /\ NoEarlierFires(s, o)

\* C18: while no position is open, o's latch is unset, o's rise from its low is
\* below entry_threshold_percent and no earlier outcome fires, every
\* check_entry_signal call with current_price[o] >= entry_price_threshold
\* returns o, through rule (b), and leaves o's latch unset (it changes nothing
\* in the engine, so the next call fires again).
C18_RuleBRefires ==
    [][\A o \in Outcomes :
          (ret'.op = "check_entry_signal" /\ RuleBOnly(strategy, o))
          => /\ ret'.signal = o
             /\ ret'.rule = "b"
             /\ ~Latched(strategy', o)
             /\ strategy' = strategy]_vars

\* check_entry_signal has returned DOWN through rule (b) with UP tracked, and
\* the case of C18 still holds for DOWN.
C18_Witness ==
    /\ ret.op = "check_entry_signal"
    /\ ret.signal = "DOWN"
    /\ ret.rule = "b"
    /\ "UP" \in DOMAIN strategy.price_states
    /\ RuleBOnly(strategy, "DOWN")

\* C19: check_entry_signal evaluates UP completely (rule (a), then rule (b))
\* before DOWN: if UP satisfies either rule it returns UP, even when DOWN
\* satisfies rule (a) in the same call, and DOWN's state (its latch) is left as
\* it was; DOWN is returned only when UP satisfies neither rule.
C19_UpBeforeDown ==
    [][(ret'.op = "check_entry_signal" /\ strategy.current_position = None)
       => /\ (HoldsA(strategy, "UP") \/ HoldsB(strategy, "UP"))
                => /\ ret'.signal = "UP"
                   /\ "DOWN" \in DOMAIN strategy.price_states
                         => strategy'.price_states["DOWN"]
                               = strategy.price_states["DOWN"]
          /\ ret'.signal = "DOWN"
                => (~HoldsA(strategy, "UP") /\ ~HoldsB(strategy, "UP"))]_vars

\* check_entry_signal has returned UP through rule (b) alone while DOWN
\* satisfied rule (a), and still does: its latch is unset.
C19_Witness ==
    /\ ret.op = "check_entry_signal"
    /\ ret.signal = "UP"
    /\ ret.rule = "b"
    /\ strategy.current_position = None
    /\ HoldsA(strategy, "DOWN")

\* C20: when, for the same unlatched outcome, both rule (a) and rule (b) hold
\* at a check_entry_signal call that reaches it (no position open, no earlier
\* outcome firing), the signal is issued through rule (a) and that outcome's
\* latch is set by the call.
C20_RuleAFirst ==
    [][\A o \in Outcomes :
          (/\ ret'.op = "check_entry_signal"
           /\ strategy.current_position = None
           /\ HoldsA(strategy, o)
           /\ HoldsB(strategy, o)
           /\ NoEarlierFires(strategy, o))
          => /\ ret'.signal = o
             /\ ret'.rule = "a"
             /\ Latched(strategy', o)]_vars

\* check_entry_signal has returned DOWN through rule (a), its price at the
\* absolute threshold and at least 5% above its low, and DOWN is latched.
C20_Witness ==
    /\ ret.op = "check_entry_signal"
    /\ ret.signal = "DOWN"
    /\ ret.rule = "a"
    /\ Latched(strategy, "DOWN")
    /\ strategy.price_states["DOWN"].current_price >= entry_price_threshold
    /\ strategy.price_states["DOWN"].low_price > 0
    /\ (strategy.price_states["DOWN"].current_price
           - strategy.price_states["DOWN"].low_price) * 100
          >= entry_threshold_percent * strategy.price_states["DOWN"].low_price
    /\ rule_a_fired["DOWN"] = 1

\* C21: enter_position(o, p) sets position_high to p whatever the tracked
\* high_price of o; while that position stays open (no enter_position,
\* exit_position or reset_tracking) position_high never decreases, so
\* position_high >= position_entry_price, and it changes only in an
\* update_prices whose snapshot contains o with a price strictly greater than
\* position_high, which becomes the new position_high.
C21_PositionHighSeeded ==
    /\ strategy.current_position # None
          => strategy.position_high >= strategy.position_entry_price
    /\ [][/\ strategy'.current_position # None
                => strategy'.position_high >= strategy'.position_entry_price
          /\ ret'.op = "enter_position"
                => /\ strategy'.current_position = ret'.signal
                   /\ strategy'.position_entry_price = ret'.arg
                   /\ strategy'.position_high = ret'.arg
          /\ (/\ strategy.current_position # None
              /\ ret'.op \notin {"enter_position", "exit_position", "reset_tracking"})
                => /\ strategy'.current_position = strategy.current_position
                   /\ strategy'.position_entry_price = strategy.position_entry_price
                   /\ strategy'.position_high >= strategy.position_high
                   /\ strategy'.position_high # strategy.position_high
                         => /\ ret'.op = "update_prices"
                            /\ strategy.current_position \in DOMAIN ret'.prices[1]
                            /\ ret'.prices[1][strategy.current_position]
                                  > strategy.position_high
                            /\ strategy'.position_high
                                  = ret'.prices[1][strategy.current_position]]_vars

\* enter_position has just opened a position at a price below the tracked high
\* of its outcome: position_high is the entry price.
C21_Witness ==
    /\ ret.op = "enter_position"
    /\ ret.signal \in DOMAIN strategy.price_states
    /\ strategy.price_states[ret.signal].high_price > ret.arg
    /\ strategy.current_position = ret.signal
    /\ strategy.position_high = ret.arg
    /\ ret.arg > 0

\* C22: after reset_tracking no outcome has a price state and no position is
\* tracked; the first update_prices afterwards (the one that finds no price
\* state) initializes every outcome present in its snapshot, and no other,
\* with low = high = current = the new price and the latch unset.
C22_ResetClearsAll ==
    [][/\ ret'.op = "reset_tracking"
             => /\ strategy'.price_states = <<>>
                /\ strategy'.current_position = None
                /\ strategy'.position_entry_price = NoValue
                /\ strategy'.position_high = NoValue
       /\ (strategy.price_states = <<>> /\ ret'.op = "update_prices")
             => /\ DOMAIN strategy'.price_states = DOMAIN ret'.prices[1]
                /\ \A o \in DOMAIN ret'.prices[1] :
                      strategy'.price_states[o]
                         = [current_price |-> ret'.prices[1][o],
                            low_price |-> ret'.prices[1][o],
                            high_price |-> ret'.prices[1][o],
                            entry_condition_met |-> FALSE]]_vars

\* reset_tracking has just run: nothing is tracked, no position, and the
\* history of rule (a) signals starts anew.
C22_Witness ==
    /\ ret.op = "reset_tracking"
    /\ strategy = NewStrategy
    /\ \A o \in Outcomes : rule_a_fired[o] = 0

\* C24: update_prices with a snapshot that lacks an outcome leaves that
\* outcome's price state (current, low, high, latch) exactly as it was, tracked
\* or not, while an outcome that is present gets the snapshot's price as its
\* current price, its low and high moved to it where it passes them, its latch
\* kept; if the missing outcome is the held one, position_high is unchanged.
C24_MissingOutcomeFrame ==
    [][ret'.op = "update_prices" =>
          \A o \in Outcomes :
             IF o \notin DOMAIN ret'.prices[1]
             THEN /\ (o \in DOMAIN strategy'.price_states)
                        <=> (o \in DOMAIN strategy.price_states)
                  /\ o \in DOMAIN strategy.price_states
                        => strategy'.price_states[o] = strategy.price_states[o]
                  /\ strategy.current_position = o
                        => strategy'.position_high = strategy.position_high
             ELSE /\ o \in DOMAIN strategy'.price_states
                  /\ strategy'.price_states[o].current_price = ret'.prices[1][o]
                  /\ o \in DOMAIN strategy.price_states
                        => LET old == strategy.price_states[o]
                               new == strategy'.price_states[o]
                               p == ret'.prices[1][o]
                           IN  /\ new.low_price = IF p < old.low_price
                                                  THEN p ELSE old.low_price
                               /\ new.high_price = IF p > old.high_price
                                                   THEN p ELSE old.high_price
                               /\ new.entry_condition_met = old.entry_condition_met]_vars

\* update_prices has run on a snapshot with UP only while DOWN is held: UP has
\* a new high, DOWN's state and position_high are stale (DOWN's last price is
\* below its high).
C24_Witness ==
    /\ ret.op = "update_prices"
    /\ DOMAIN ret.prices[1] = {"UP"}
    /\ strategy.current_position = "DOWN"
    /\ "DOWN" \in DOMAIN strategy.price_states
    /\ strategy.price_states["DOWN"].current_price < strategy.position_high
    /\ strategy.price_states["UP"].current_price = ret.prices[1]["UP"]
    /\ strategy.price_states["UP"].low_price < ret.prices[1]["UP"]

\* C25: a zero divisor is treated as condition-not-met: check_entry_signal
\* does not fire rule (a) and does not change the latch for an outcome whose
\* tracked low_price is 0, and check_exit_signal returns False when
\* position_high is 0 or absent.
C25_ZeroDivisorGuard ==
    [][/\ ret'.op = "check_entry_signal" =>
             \A o \in DOMAIN strategy.price_states :
                strategy.price_states[o].low_price = 0
                => /\ ~(ret'.signal = o /\ ret'.rule = "a")
                   /\ Latched(strategy', o) <=> Latched(strategy, o)
       /\ (ret'.op = "check_exit_signal" /\ strategy.position_high \in {0, NoValue})
             => ~ret'.flag]_vars

\* check_entry_signal has returned None with no position open and an unlatched
\* outcome at 0.42 whose low is 0.
C25_Witness ==
    /\ ret.op = "check_entry_signal"
    /\ ret.signal = None
    /\ strategy.current_position = None
    /\ \E o \in DOMAIN strategy.price_states :
          /\ strategy.price_states[o].low_price = 0
          /\ strategy.price_states[o].current_price = 42
          /\ ~strategy.price_states[o].entry_condition_met

-----------------------------------------------------------------------------
(* Claims about the PositionTracker *)

\* What close_position does to the memory of the ledger in a step that calls it
\* with a position open: the P&L returned is (exit_price - entry_price) * size,
\* one ClosedPosition with that exit_price and P&L is appended to the history,
\* whose earlier entries stay, and no position is left open.
ClosedInMemory ==
    LET p == tracker.current_position[1]
        h == tracker.position_history
        h2 == tracker'.position_history
    IN  /\ ret'.value # <<>>
        /\ ret'.value[1].num * p.size.den
              = (ret'.arg - p.entry_price) * p.size.num * ret'.value[1].den
        /\ (p.entry_price = 40 /\ p.size = [num |-> 5, den |-> 2] /\ ret'.arg = 55)
              => ret'.value[1] = [num |-> 75, den |-> 2]
        /\ Len(h2) = Len(h) + 1
        /\ SubSeq(h2, 1, Len(h)) = h
        /\ h2[Len(h2)].outcome = p.outcome
        /\ h2[Len(h2)].entry_price = p.entry_price
        /\ h2[Len(h2)].size = p.size
        /\ h2[Len(h2)].exit_price = ret'.arg
        /\ h2[Len(h2)].pnl = ret'.value
        /\ tracker'.current_position = <<>>

\* The record on disk, read back, is the whole history in memory.
Persisted(file, t) ==
    /\ file.status = "ok"
    /\ load_history(file) = t.position_history

\* C4 as claimed: close_position with a position open returns the P&L, appends
\* one ClosedPosition, leaves no position open and persists the full history.
C4_CloseAsClaimed ==
    [][(ret'.op = "close_position" /\ tracker.current_position # <<>>) =>
          /\ ClosedInMemory
          /\ Persisted(history_file', tracker')]_vars

\* C4 amended: close_position with a position open returns pnl = (exit_price -
\* entry_price) * size, appends exactly one ClosedPosition carrying that
\* exit_price and pnl to the end of the history and leaves no position open;
\* the full history is persisted unless the write fails (a failed write is
\* only logged).
C4_CloseUnlessWriteFails ==
    [][(ret'.op = "close_position" /\ tracker.current_position # <<>>) =>
          /\ ClosedInMemory
          /\ ret'.saved => Persisted(history_file', tracker')]_vars

\* A second position, opened at 0.40 with 2.5 shares, was closed at 0.55 for a
\* P&L of 0.375 and the two closed positions are on disk.
C4_Witness ==
    /\ ret.op = "close_position"
    /\ ret.arg = 55
    /\ ret.value = <<[num |-> 75, den |-> 2]>>
    /\ ret.saved
    /\ tracker.current_position = <<>>
    /\ Len(tracker.position_history) = 2
    /\ tracker.position_history[2].entry_price = 40
    /\ Len(history_file.data) = 2

\* C12: the ledger holds at most one open Position in every reachable state;
\* open_position called while a position is open (no close_position in
\* between) does not fail, logs a warning, and leaves exactly one open Position
\* whose outcome, entry_price, size and order reference are those of this
\* call, its entry_time the time of this call; the history and the persisted
\* record are untouched.  (A step that leaves the clock alone is a call, and
\* ret names it; the inputs of OpenInputs differ in their prices, so the
\* price of the call, ret.arg, names the input.)
C12_DoubleOpenOverrides ==
    /\ Len(tracker.current_position) <= 1
    /\ [][/\ Len(tracker'.current_position) <= 1
          /\ (ret'.op = "open_position" /\ clock' = clock) =>
                /\ ret'.warning <=> (tracker.current_position # <<>>)
                /\ Len(tracker'.current_position) = 1
                /\ \E in \in OpenInputs :
                      /\ in[2] = ret'.arg
                      /\ tracker'.current_position[1].outcome = in[1]
                      /\ tracker'.current_position[1].entry_price = in[2]
                      /\ tracker'.current_position[1].size = in[3]
                      /\ tracker'.current_position[1].entry_order_id = in[4]
                /\ tracker'.current_position[1].entry_time = clock
                /\ tracker'.current_position[1].exit_time = NoValue
                /\ tracker'.current_position[1].pnl = <<>>
                /\ tracker'.position_history = tracker.position_history
                /\ history_file' = history_file]_vars

\* open_position has warned: a position was open, and the one open now is the
\* DOWN position of this call, made later than time 0, with nothing closed yet.
C12_Witness ==
    /\ ret.op = "open_position"
    /\ ret.warning
    /\ ret.arg = 55
    /\ tracker.current_position # <<>>
    /\ tracker.current_position[1].outcome = "DOWN"
    /\ tracker.current_position[1].entry_order_id = "order-1"
    /\ tracker.current_position[1].entry_time = 1500000
    /\ tracker.position_history = <<>>

LoadFails(file) ==
    \/ file.status # "ok"
    \/ \E i \in 1..Len(file.data) : ~Loadable(file.data[i])

\* C14 as claimed: when loading the persisted history at startup fails (missing
\* record, unparsable record, or a malformed entry at any index of the stored
\* list), the ledger just constructed has an empty history, not a partial one.
C14_FailedLoadIsEmpty ==
    (ret.op = "__init__" /\ LoadFails(history_file))
    => /\ tracker.current_position = <<>>
       /\ tracker.position_history = <<>>

\* C15: when persisting the history fails during close_position, the close is
\* not rolled back and nothing is raised: the call still returns the pnl, the
\* ClosedPosition is the last entry of the in-memory history, and no position
\* remains open.
C15_FailedWriteKeepsClose ==
    [][(/\ ret'.op = "close_position"
        /\ clock' = clock
        /\ tracker.current_position # <<>>
        /\ ~ret'.saved)
       => /\ ClosedInMemory
          /\ ~ret'.warning
          /\ tracker'.position_history[Len(tracker'.position_history)].exit_time = clock]_vars

\* close_position has returned a pnl after a write that failed before anything
\* reached the disk: one closed position in memory, none open, no file.
C15_Witness ==
    /\ ret.op = "close_position"
    /\ ~ret.saved
    /\ ~ret.warning
    /\ ret.value # <<>>
    /\ tracker.current_position = <<>>
    /\ Len(tracker.position_history) = 1
    /\ tracker.position_history[1].pnl = ret.value
    /\ history_file = FileMissing

\* Every entry of the file is well-formed.
WellFormed(file) == file.status = "ok" /\ ~LoadFails(file)

\* C16: the persisted record is written only by a close_position on an open
\* position, never by open_position, get_current_pnl or get_statistics (nor by
\* construction); so a ledger constructed after a restart has no open
\* position, whatever was open when the process stopped, and its history is
\* exactly the closed positions of the (well-formed) record persisted before
\* the restart.
C16_WrittenOnlyOnClose ==
    [][/\ history_file' # history_file
             => /\ ret'.op = "close_position"
                /\ clock' = clock
                /\ tracker.current_position # <<>>
       /\ (/\ ret'.op \in {"open_position", "get_current_pnl", "get_statistics"}
           /\ clock' = clock)
             => /\ history_file' = history_file
                /\ tracker'.position_history = tracker.position_history
       /\ (ret'.op = "__init__" /\ clock' = clock)
             => /\ tracker'.current_position = <<>>
                /\ history_file' = history_file
                /\ WellFormed(history_file)
                      => /\ Len(tracker'.position_history) = Len(history_file.data)
                         /\ \A i \in 1..Len(history_file.data) :
                               to_dict(tracker'.position_history[i])
                                  = history_file.data[i]]_vars

\* A ledger has just been constructed, later than the first startup, from a
\* record of two closed positions: both are its history and nothing is open.
C16_Witness ==
    /\ ret.op = "__init__"
    /\ clock > 0
    /\ WellFormed(history_file)
    /\ Len(history_file.data) = 2
    /\ Len(tracker.position_history) = 2
    /\ tracker.position_history[2].exit_time = clock
    /\ tracker.current_position = <<>>

\* C26: within one process the closed-position history is append-only: a
\* close_position made with a position open adds exactly one entry, that
\* position with its exit fields, at the end; every other operation
\* (open_position, a double open included, close_position with nothing open,
\* get_current_pnl, get_statistics) leaves the history as it is; no operation
\* changes or removes an entry.
C26_HistoryAppendOnly ==
    [][~(ret'.op = "__init__" /\ clock' = clock) =>
          LET h == tracker.position_history
              h2 == tracker'.position_history
          IN  IF /\ ret'.op = "close_position"
                 /\ clock' = clock
                 /\ tracker.current_position # <<>>
              THEN /\ Len(h2) = Len(h) + 1
                   /\ \A i \in 1..Len(h) : h2[i] = h[i]
                   /\ h2[Len(h2)].outcome = tracker.current_position[1].outcome
                   /\ h2[Len(h2)].entry_time = tracker.current_position[1].entry_time
                   /\ h2[Len(h2)].exit_time = clock
              ELSE h2 = h]_vars

\* get_statistics has run on a history of two positions, the second closed
\* later than the first, while a third position is open.
C26_Witness ==
    /\ ret.op = "get_statistics"
    /\ Len(tracker.position_history) = 2
    /\ tracker.position_history[1].exit_time < tracker.position_history[2].exit_time
    /\ tracker.current_position # <<>>

\* The product of the denominators of the P&L of a history, and the sum of the
\* P&L as a multiple of 1/D.
RECURSIVE DenProduct(_)
DenProduct(h) ==
    IF h = <<>> THEN 1 ELSE Head(h).pnl[1].den * DenProduct(Tail(h))

RECURSIVE ScaledSum(_, _)
ScaledSum(h, D) ==
    IF h = <<>> THEN 0
    ELSE Head(h).pnl[1].num * (D \div Head(h).pnl[1].den) + ScaledSum(Tail(h), D)

\* C27: for every history, get_statistics returns total_trades = number of
\* entries, total_pnl = sum of their pnl, winning_trades = count with pnl > 0,
\* losing_trades = count with pnl < 0 (pnl = 0 counts in neither), win_rate =
\* winning_trades / total_trades * 100 and average_pnl = total_pnl /
\* total_trades, zero for every field when the history is empty; the call
\* changes neither the ledger nor the persisted record.
C27_Statistics ==
    [][(ret'.op = "get_statistics" /\ clock' = clock) =>
          LET h == tracker.position_history
              n == Len(h)
              st == ret'.stats[1]
              D == DenProduct(h)
              zeros == Cardinality({i \in 1..n : h[i].pnl[1].num = 0})
          IN  /\ tracker' = tracker
              /\ history_file' = history_file
              /\ st.total_trades = n
              /\ st.total_pnl.num * D = st.total_pnl.den * ScaledSum(h, D)
              /\ st.winning_trades
                    = Cardinality({i \in 1..n :
                         h[i].pnl[1].num * h[i].pnl[1].den > 0})
              /\ st.losing_trades
                    = Cardinality({i \in 1..n :
                         h[i].pnl[1].num * h[i].pnl[1].den < 0})
              /\ st.winning_trades + st.losing_trades + zeros = n
              /\ n > 0 =>
                    /\ st.win_rate.num * n = st.win_rate.den * st.winning_trades * 100
                    /\ st.average_pnl.num * st.total_pnl.den * n
                          = st.average_pnl.den * st.total_pnl.num
              /\ n = 0 =>
                    /\ st.total_pnl.num = 0
                    /\ st.win_rate.num = 0
                    /\ st.average_pnl.num = 0]_vars

\* get_statistics has run on a history of two positions, one closed at a gain
\* of 0.375 and one at a P&L of 0: one winning trade, no losing one, a win rate
\* of 50 and an average of 0.1875.
C27_Witness ==
    /\ ret.op = "get_statistics"
    /\ Len(tracker.position_history) = 2
    /\ ret.stats[1].total_trades = 2
    /\ ret.stats[1].winning_trades = 1
    /\ ret.stats[1].losing_trades = 0
    /\ ret.stats[1].total_pnl = [num |-> 75, den |-> 2]
    /\ ret.stats[1].win_rate = [num |-> 50, den |-> 1]
    /\ ret.stats[1].average_pnl = [num |-> 75, den |-> 4]

\* C30: after every close_position whose write succeeds, the persisted record
\* equals the complete in-memory history in order, the positions closed earlier
\* whose own write failed included: each write replaces the whole record, it
\* does not append to it.
C30_WriteReplacesRecord ==
    [][(ret'.op = "close_position" /\ clock' = clock /\ ret'.saved) =>
          /\ history_file'.status = "ok"
          /\ Len(history_file'.data) = Len(tracker'.position_history)
          /\ \A i \in 1..Len(tracker'.position_history) :
                history_file'.data[i] = to_dict(tracker'.position_history[i])]_vars

\* A close_position has been written with two closed positions in memory, the
\* first of which was on no record when the call was made; the record holds
\* both, the earlier one first.
C30_Witness ==
    /\ ret.op = "close_position"
    /\ ret.saved
    /\ ret.unsaved = 1
    /\ Len(tracker.position_history) = 2
    /\ Len(history_file.data) = 2
    /\ history_file.data[1] = to_dict(tracker.position_history[1])
    /\ history_file.data[2] = to_dict(tracker.position_history[2])
    /\ tracker.position_history[1].exit_time < tracker.position_history[2].exit_time

-----------------------------------------------------------------------------
(* Claims about both objects *)

\* C23: calls made in the wrong state return a neutral result and change no
\* state: check_entry_signal with a position open returns None and sets no
\* latch; check_exit_signal with no position open, or with the held outcome
\* never observed, returns False; close_position with no position open returns
\* None (and warns) and leaves history and persisted record untouched.
C23_WrongStateNeutral ==
    [][clock' = clock =>
          /\ (ret'.op = "check_entry_signal" /\ strategy.current_position # None)
                => /\ ret'.signal = None
                   /\ strategy' = strategy
          /\ (/\ ret'.op = "check_exit_signal"
              /\ \/ strategy.current_position = None
                 \/ strategy.current_position \notin DOMAIN strategy.price_states)
                => /\ ~ret'.flag
                   /\ strategy' = strategy
          /\ (ret'.op = "close_position" /\ tracker.current_position = <<>>)
                => /\ ret'.value = <<>>
                   /\ ret'.warning
                   /\ tracker' = tracker
                   /\ history_file' = history_file]_vars

\* check_entry_signal has returned None with a position open on DOWN while UP
\* satisfies rule (a): UP's latch is still unset.
C23_Witness ==
    /\ ret.op = "check_entry_signal"
    /\ ret.signal = None
    /\ strategy.current_position = "DOWN"
    /\ HoldsA(strategy, "UP")

-----------------------------------------------------------------------------
(* Claims about the orchestrator *)

Last(seq) == seq[Len(seq)]

\* The ledger holds an open position on outcome o.
LedgerHolds(o) ==
    tracker.current_position # <<>> /\ tracker.current_position[1].outcome = o

\* C6: at every cycle boundary the engine's current_position is None exactly
\* when the ledger has no open position, and otherwise the ledger's open
\* position is on the engine's outcome.
C6_EngineLedgerAgree ==
    pc = "idle" =>
        /\ strategy.current_position = None <=> tracker.current_position = <<>>
        /\ strategy.current_position # None => LedgerHolds(strategy.current_position)

\* A cycle has ended after an exit that flipped UP to DOWN: one closed position
\* in the history, DOWN open in engine and ledger.
C6_Witness ==
    /\ pc = "idle"
    /\ Len(tracker.position_history) = 1
    /\ tracker.position_history[1].outcome = "UP"
    /\ strategy.current_position = "DOWN"
    /\ LedgerHolds("DOWN")

\* The engine's position state.
PositionState(s) == <<s.current_position, s.position_entry_price, s.position_high>>

\* The ledger call made in this step, if one was.
LedgerCalled(name) ==
    /\ Len(ledger_calls') > Len(ledger_calls)
    /\ \E i \in (Len(ledger_calls) + 1)..Len(ledger_calls') : ledger_calls'[i] = name

\* The last trade so far was this one, and it succeeded.
Succeeded(side, outcome) ==
    /\ trades # <<>>
    /\ Last(trades) = [side |-> side, outcome |-> outcome, ok |-> TRUE]

\* C7: enter_position and open_position are called only after the BUY of that
\* outcome has reported success, close_position and exit_position only after
\* the SELL of the held outcome has reported success, and a trade that fails
\* ends the cycle with the engine's position state, the ledger and the
\* persisted record unchanged.
C7_RecordOnlyAfterSuccess ==
    [][/\ (/\ strategy'.current_position # None
           /\ <<strategy'.current_position, strategy'.position_entry_price>>
                 # <<strategy.current_position, strategy.position_entry_price>>)
          => Succeeded("BUY", strategy'.current_position)
       /\ LedgerCalled("open_position")
          => /\ tracker'.current_position # <<>>
             /\ Succeeded("BUY", tracker'.current_position[1].outcome)
       /\ (strategy.current_position # None /\ strategy'.current_position = None)
          => Succeeded("SELL", strategy.current_position)
       /\ LedgerCalled("close_position")
          => /\ tracker.current_position # <<>>
             /\ Succeeded("SELL", tracker.current_position[1].outcome)
       /\ (Len(trades') > Len(trades) /\ ~Last(trades').ok)
          => /\ PositionState(strategy') = PositionState(strategy)
             /\ tracker' = tracker
             /\ history_file' = history_file
             /\ pc' = "idle"]_vars

\* A cycle has ended in which the SELL of the held outcome succeeded and was
\* recorded, and the BUY of the inverse failed and was not: no position is open.
C7_Witness ==
    /\ pc = "idle"
    /\ Len(trades) = 2
    /\ trades[1].side = "SELL" /\ trades[1].ok
    /\ trades[2].side = "BUY" /\ ~trades[2].ok
    /\ ledger_calls = <<"close_position">>
    /\ strategy.current_position = None
    /\ tracker.current_position = <<>>

\* C8 as claimed: when a cycle ends, every trade of it that succeeded is
\* recorded in engine and ledger: after a successful BUY of o both hold o, and
\* after a successful SELL of o the position on o is closed in both.
C8_SuccessRecorded ==
    pc = "idle" =>
        \A i \in 1..Len(trades) :
            trades[i].ok =>
                IF trades[i].side = "BUY"
                THEN /\ strategy.current_position = trades[i].outcome
                     /\ LedgerHolds(trades[i].outcome)
                ELSE /\ strategy.current_position # trades[i].outcome
                     /\ ~LedgerHolds(trades[i].outcome)
                     /\ ledger_calls # <<>>
                     /\ ledger_calls[1] = "close_position"
                     /\ tracker.position_history # <<>>
                     /\ Last(tracker.position_history).outcome = trades[i].outcome

\* The outcome whose position this cycle closed.
ClosedOutcome == Last(tracker.position_history).outcome

ClosedThisCycle ==
    /\ ledger_calls # <<>>
    /\ ledger_calls[1] = "close_position"
    /\ tracker.position_history # <<>>

\* C9 as claimed: when a cycle that closed a position on o ends, a position on
\* the inverse of o is open in engine and ledger.
C9_AlwaysFlipped ==
    (pc = "idle" /\ ClosedThisCycle) =>
        LET inverse == IF ClosedOutcome = "UP" THEN "DOWN" ELSE "UP"
        IN  /\ strategy.current_position = inverse
            /\ LedgerHolds(inverse)

\* C9 amended: whenever a position on o is closed on an exit signal, a BUY of
\* the inverse outcome is the next trade attempted, in the same cycle; when the
\* cycle ends, either that BUY succeeded and a position on the inverse of o is
\* open in engine and ledger, or no position is open in either (the BUY failed
\* or was not recorded); o is never still held.
C9_FlipAttempted ==
    (pc = "idle" /\ ClosedThisCycle) =>
        LET inverse == IF ClosedOutcome = "UP" THEN "DOWN" ELSE "UP"
        IN  /\ Len(trades) = 2
            /\ trades[1] = [side |-> "SELL", outcome |-> ClosedOutcome, ok |-> TRUE]
            /\ trades[2].side = "BUY"
            /\ trades[2].outcome = inverse
            /\ \/ /\ trades[2].ok
                  /\ strategy.current_position = inverse
                  /\ LedgerHolds(inverse)
               \/ /\ strategy.current_position = None
                  /\ tracker.current_position = <<>>

\* A cycle has ended that closed a position on DOWN and opened one on UP.
C9_Witness ==
    /\ pc = "idle"
    /\ ClosedThisCycle
    /\ ClosedOutcome = "DOWN"
    /\ trades[2] = [side |-> "BUY", outcome |-> "UP", ok |-> TRUE]
    /\ strategy.current_position = "UP"
    /\ LedgerHolds("UP")

\* C10 as claimed: a cycle makes at most one call in total to open_position or
\* close_position.
C10_OneLedgerMutation == Len(ledger_calls) <= 1

\* C10 amended: a cycle makes at most one call to close_position and at most
\* one to open_position, the close before the open when it makes both (an exit
\* that flips); a cycle that closes nothing makes at most one ledger mutation.
C10_CloseThenOpen ==
    ledger_calls \in {<<>>, <<"open_position">>, <<"close_position">>,
                      <<"close_position", "open_position">>}

\* A cycle has ended that closed one position and opened the inverse one.
C10_Witness ==
    /\ pc = "idle"
    /\ ledger_calls = <<"close_position", "open_position">>
    /\ tracker.current_position # <<>>
    /\ tracker.position_history # <<>>

\* The number of entries of a sequence of calls that are in a set of names.
RECURSIVE CountIn(_, _)
CountIn(calls, names) ==
    IF calls = <<>> THEN 0
    ELSE (IF Head(calls) \in names THEN 1 ELSE 0) + CountIn(Tail(calls), names)

SignalChecks == {"check_entry_signal", "check_exit_signal"}

\* At most one signal check in the cycle so far, after an update_prices, and of
\* the kind that goes with the engine's position when the cycle started (asked
\* of the step that starts a cycle).
OneCheckAfterUpdate ==
    /\ CountIn(engine_calls', SignalChecks) <= 1
    /\ \A i \in 1..Len(engine_calls') :
          engine_calls'[i] \in SignalChecks =>
              \E j \in 1..(i - 1) : engine_calls'[j] = "update_prices"
    /\ pc = "idle" =>
          /\ CountIn(engine_calls', {"check_entry_signal"}) = 1
                => strategy.current_position = None
          /\ CountIn(engine_calls', {"check_exit_signal"}) = 1
                => strategy.current_position # None

C28_FloorAdjustedRecorded ==
    [][(/\ pc = "entry_record"
        /\ pc' = "idle"
        /\ tracking_price' > 0
        /\ position_value_usdc < MinOrderValue)
       => /\ engine_calls' = Append(engine_calls, "enter_position")
          /\ ledger_calls' = Append(ledger_calls, "open_position")
          /\ strategy'.current_position = pending
          /\ tracker'.current_position # <<>>
          /\ tracker'.current_position[1].outcome = pending
          /\ tracker'.current_position[1].entry_price = tracking_price'
          /\ tracker'.current_position[1].size.num * tracking_price'
                = MinOrderValue * tracker'.current_position[1].size.den]_vars


\* C29: check_entry_signal sets an outcome's latch at the moment it emits a
\* rule (a) signal, before the orchestrator's BUY and whatever its result; a
\* BUY that fails leaves no position open and the latch as it was, and an
\* outcome whose latch is set is signalled no more, by rule (a) or rule (b);
\* an outcome for which rule (b) alone holds is signalled in every cycle that
\* checks for an entry, so an entry signalled by rule (b) whose BUY failed is
\* signalled again at the next cycle in which its condition still holds.
C29_LatchSetBeforeBuy ==
    [][/\ \A o \in Outcomes :
             (pc = "idle" /\ rule_a_fired'[o] = rule_a_fired[o] + 1)
                => /\ Latched(strategy', o)
                   /\ pc' = "entry_trade"
                   /\ pending' = o
                   /\ trades' = <<>>
                   /\ strategy'.current_position = None
       /\ (pc = "entry_trade" /\ pc' = "idle")
             => /\ trades' = Append(trades, [side |-> "BUY", outcome |-> pending,
                                             ok |-> FALSE])
                /\ strategy' = strategy
                /\ strategy.current_position = None
                /\ tracker' = tracker
                /\ tracker.current_position = <<>>
       /\ (pc = "idle" /\ pc' = "entry_trade")
             => ~Latched(strategy, pending')
       /\ \A o \in Outcomes :
             (/\ pc = "idle"
              /\ engine_calls' = <<"update_prices", "check_entry_signal">>
              /\ rule_a_fired' = rule_a_fired
              /\ RuleBOnly(strategy', o))
                => /\ pc' = "entry_trade"
                   /\ pending' = o
                   /\ ~Latched(strategy', o)]_vars

\* A cycle has ended in which UP was signalled by rule (a) and its BUY failed:
\* UP's latch is set, its price is still at the absolute threshold and no
\* position is open.
C29_Witness ==
    /\ pc = "idle"
    /\ trades = <<[side |-> "BUY", outcome |-> "UP", ok |-> FALSE]>>
    /\ engine_calls = <<"update_prices", "check_entry_signal">>
    /\ rule_a_fired["UP"] = 1
    /\ Latched(strategy, "UP")
    /\ strategy.price_states["UP"].current_price >= entry_price_threshold
    /\ strategy.current_position = None
    /\ tracker.current_position = <<>>

=============================================================================
